---- MODULE Spec2Model ----
(***************************************************************************)
(* Products service (index.js, productModel.js): an Express router over a  *)
(* mongoose "Product" collection, with an external auth verifier in front  *)
(* of the four mutating routes.                                            *)
(*                                                                         *)
(* A product document is a function from field names to values. Text that  *)
(* the code inspects character by character (the name, the search pattern) *)
(* is a sequence of one-character strings; numbers are integers; an        *)
(* ObjectId is a natural number and a path segment that does not cast to   *)
(* an ObjectId is a negative number.                                       *)
(*                                                                         *)
(* Request bodies are drawn from documents whose keys are schema fields    *)
(* (or _id) and whose values have the schema's types, so that mongoose's   *)
(* casting and strict-mode filtering leave them as they are. A document    *)
(* that is inserted gets the version key __v = 0; no route changes an      *)
(* array path, so no route increments it.                                  *)
(***************************************************************************)
EXTENDS Integers, Sequences, FiniteSets, TLC

VARIABLES
    store,      \* the documents of the Product collection
    nextId,     \* the next ObjectId the driver generates
    requests,   \* how many requests have been handled
    resp,       \* the request handled last and the response to it
    asCreated,  \* history: documents returned by a 201 create, not modified since
    deleted,    \* history: per id, "no", "gone" (deleted with 204) or "back"
    inflight,   \* a discount and a delete request handled step by step
    suspended   \* discount requests between their findById and their save

vars == <<store, nextId, requests, resp, asCreated, deleted, inflight, suspended>>

----------------------------------------------------------------------------
(* Bounds *)

MaxRequests == 4    \* requests handled in one behaviour
MaxCartIds == 2     \* ids in one cart request
MaxInFlight == 1    \* discount requests suspended at one time

----------------------------------------------------------------------------
(* Ids and values *)

ForeignId == 0                      \* a valid ObjectId the driver never generates
ObjectIds == 0..MaxRequests
MalformedId == -1

isValidObjectId(id) == id >= 0

Name_ab == <<"a", "b">>
Name_B == <<"B">>

PayloadA == [name |-> Name_ab, originalPrice |-> 5, temporaryPrice |-> -1,
             category |-> "x"]
PayloadB == [name |-> Name_B, originalPrice |-> 10, category |-> "y"]
Payloads == {PayloadA, PayloadB}

Merge(d, b) ==
    [f \in DOMAIN d \cup DOMAIN b |-> IF f \in DOMAIN b THEN b[f] ELSE d[f]]

WithId(b, id) == Merge(b, [_id |-> id])

\* Bodies that carry an _id key.
BodiesWithId(ids) == {WithId(PayloadA, i) : i \in ids}

EmptyBody == [f \in {} |-> 0]
DiscountBodies == {EmptyBody} \cup {[temporaryPrice |-> v] : v \in {0, -1, 7}}

Ids(s) == {d._id : d \in s}

----------------------------------------------------------------------------
(* Outcome of a handler: the response written, the store afterwards, the   *)
(* number of responses written and whether an exception left the handler.  *)

Reply(s, status, body) ==
    [status |-> status, body |-> body, store |-> s, sent |-> 1, threw |-> FALSE]

Escaped(s) ==
    [status |-> 0, body |-> "", store |-> s, sent |-> 0, threw |-> TRUE]

InternalServerError(s) == Reply(s, 500, "Internal Server Error")
ProductNotFound(s) == Reply(s, 404, "Product not found")

----------------------------------------------------------------------------
(* Auth verifier: next() is called iff the verification call succeeded.    *)

verifyTokenSkipped(authOk) == TRUE

verifyToken(authOk) == authOk

Unauthorized(s) == Reply(s, 401, "Unauthorized")

----------------------------------------------------------------------------
(* Collection operations (mongoose Model calls made by the handlers).      *)

\* Product.findById: the documents with that _id (none or one).
findById(s, id) == {d \in s : d._id = id}

\* The version key that the schema (versionKey not disabled) gives a document
\* when it is inserted.
VersionKey == [__v |-> 0]

\* new Product(body), as inserted by save(): the body's _id when it has one,
\* else a generated one, and the version key.
NewProduct(body, gen) ==
    Merge(IF "_id" \in DOMAIN body THEN body ELSE WithId(body, gen), VersionKey)

\* product.save() of a new document trips the unique _id index on a duplicate.
DuplicateKey(s, doc) == doc._id \in Ids(s)

UpdatedDocReplaced(d, body) == WithId(body, d._id)

\* Product.findByIdAndUpdate(id, body, {new: true}): the keys of the body are
\* $set on the document; keys the body omits are kept.
UpdatedDoc(d, body) == Merge(d, body)

ModifiesIdAllowed(id, body) == FALSE

\* The server refuses an update that would change _id.
ModifiesId(id, body) == "_id" \in DOMAIN body /\ body._id # id

findByIdAndUpdate(s, id, body) ==
    IF ~isValidObjectId(id) THEN [error |-> TRUE, found |-> {}, store |-> s]
    ELSE IF findById(s, id) = {} THEN [error |-> FALSE, found |-> {}, store |-> s]
    ELSE IF ModifiesId(id, body) THEN [error |-> TRUE, found |-> {}, store |-> s]
    ELSE LET d == CHOOSE d \in findById(s, id) : TRUE
             nd == UpdatedDoc(d, body)
         IN  [error |-> FALSE, found |-> {nd}, store |-> (s \ {d}) \cup {nd}]

findByIdAndDeleteKeeps(s, id) ==
    IF ~isValidObjectId(id) THEN [error |-> TRUE, found |-> {}, store |-> s]
    ELSE [error |-> FALSE, found |-> findById(s, id), store |-> s]

\* Product.findByIdAndDelete(id): removes the document and returns it.
findByIdAndDelete(s, id) ==
    IF ~isValidObjectId(id) THEN [error |-> TRUE, found |-> {}, store |-> s]
    ELSE [error |-> FALSE, found |-> findById(s, id), store |-> s \ findById(s, id)]

saveLoadedUpserts(s, product, modified) ==
    [error |-> FALSE,
     store |-> {d \in s : d._id # product._id} \cup {product}]

\* product.save() of a document loaded by an earlier findById: an update of
\* the stored document with that _id, $set of the modified paths; with no
\* modified path nothing is written and the store is only asked whether the
\* document exists. When no document matches, nothing is written and
\* DocumentNotFoundError is thrown.
saveLoaded(s, product, modified) ==
    IF findById(s, product._id) = {} THEN [error |-> TRUE, store |-> s]
    ELSE LET cur == CHOOSE d \in findById(s, product._id) : TRUE
         IN  [error |-> FALSE,
              store |-> (s \ {cur})
                           \cup {Merge(cur, [f \in modified |-> product[f]])}]

\* Change tracking of a loaded document: assigning to a path the value it
\* already has does not mark the path modified.
ModifiedPaths(product, path, value) ==
    IF path \in DOMAIN product /\ product[path] = value THEN {} ELSE {path}

----------------------------------------------------------------------------
(* POST /products *)

PostProductsUnsaved(s, authOk, fault, body, gen) ==
    IF ~verifyToken(authOk) THEN Unauthorized(s)
    ELSE Reply(s, 201, NewProduct(body, gen))

PostProducts(s, authOk, fault, body, gen) ==
    IF ~verifyToken(authOk) THEN Unauthorized(s)
    ELSE LET product == NewProduct(body, gen)
         IN  IF fault \/ DuplicateKey(s, product) THEN InternalServerError(s)
             ELSE Reply(s \cup {product}, 201, product)

(* GET /products/:id *)

GetProductByIdUncaught(s, fault, id) ==
    IF fault \/ ~isValidObjectId(id) THEN Escaped(s)
    ELSE IF findById(s, id) = {} THEN ProductNotFound(s)
    ELSE Reply(s, 200, CHOOSE d \in findById(s, id) : TRUE)

GetProductById(s, fault, id) ==
    IF fault \/ ~isValidObjectId(id) THEN InternalServerError(s)
    ELSE IF findById(s, id) = {} THEN ProductNotFound(s)
    ELSE Reply(s, 200, CHOOSE d \in findById(s, id) : TRUE)

(* PUT /products/:id *)

PutProductById(s, authOk, fault, id, body) ==
    IF ~verifyToken(authOk) THEN Unauthorized(s)
    ELSE IF fault THEN InternalServerError(s)
    ELSE LET r == findByIdAndUpdate(s, id, body)
         IN  IF r.error THEN InternalServerError(s)
             ELSE IF r.found = {} THEN ProductNotFound(s)
             ELSE Reply(r.store, 200, CHOOSE d \in r.found : TRUE)

(* DELETE /products/:id *)

DeleteProductById(s, authOk, fault, id) ==
    IF ~verifyToken(authOk) THEN Unauthorized(s)
    ELSE IF fault THEN InternalServerError(s)
    ELSE LET r == findByIdAndDelete(s, id)
         IN  IF r.error THEN InternalServerError(s)
             ELSE IF r.found = {} THEN ProductNotFound(s)
             ELSE Reply(r.store, 204, "")

(* PUT /products/:productId/discount *)

\* !temporaryPrice: the key is missing or its value is 0. (!productId never
\* holds: a path parameter is a non-empty segment.)
FalsyOnlyMissing(body, key) == key \notin DOMAIN body

Falsy(body, key) == key \notin DOMAIN body \/ body[key] = 0

\* The handler suspends at its two store calls, findById and save; requests
\* handled in between see, and change, the store. Each operator below is the
\* code between two awaits.

\* verifyToken and the input validation: the status answered, or 0 to go on.
DiscountBegin(authOk, productId, body) ==
    IF ~verifyToken(authOk) THEN 401
    ELSE IF Falsy(body, "temporaryPrice") THEN 400
    ELSE 0

\* await Product.findById(productId): the status answered (0 to go on) and
\* the product loaded.
DiscountFind(s, fault, productId) ==
    IF fault \/ ~isValidObjectId(productId) THEN [status |-> 500, loaded |-> {}]
    ELSE IF findById(s, productId) = {} THEN [status |-> 404, loaded |-> {}]
    ELSE [status |-> 0, loaded |-> findById(s, productId)]

\* product.temporaryPrice = temporaryPrice; await product.save()
DiscountSave(s, loaded, body) ==
    LET product == CHOOSE d \in loaded : TRUE
        updated == Merge(product, [temporaryPrice |-> body.temporaryPrice])
        r == saveLoaded(s, updated,
                        ModifiedPaths(product, "temporaryPrice", body.temporaryPrice))
    IN  IF r.error THEN InternalServerError(s) ELSE Reply(r.store, 200, updated)

----------------------------------------------------------------------------
(* GET /products/search?name= *)

toLowerCharKeepsCase(c) == c

toLowerChar(c) == CASE c = "A" -> "a" [] c = "B" -> "b" [] OTHER -> c

\* new RegExp(name, 'i') throws a SyntaxError on an unterminated group.
RegExpThrows(pattern) == \E i \in 1..Len(pattern) : pattern[i] = "("

\* regex.test(text) under the i flag, for patterns of literals and ".".
RegExpTest(pattern, text) ==
    \E off \in 0..(Len(text) - Len(pattern)) :
        \A k \in 1..Len(pattern) :
            \/ pattern[k] = "."
            \/ toLowerChar(pattern[k]) = toLowerChar(text[off + k])

\* Product.find({name: {$regex: regex}}): documents without a name never match.
findByNameRegex(s, pattern) ==
    {d \in s : "name" \in DOMAIN d /\ RegExpTest(pattern, d.name)}

Patterns == {<< >>, <<"a">>, <<"B">>, <<".">>, <<"(">>}
SearchQueries == {EmptyBody} \cup {[name |-> p] : p \in Patterns}

\* !name: the parameter is missing or the empty string.
MissingName(query) == "name" \notin DOMAIN query \/ query.name = << >>

GetProductsSearch(s, fault, query) ==
    IF MissingName(query)
    THEN Reply(s, 400, "Missing search query parameter \"name\"")
    ELSE IF RegExpThrows(query.name) \/ fault THEN InternalServerError(s)
    ELSE Reply(s, 200, findByNameRegex(s, query.name))

(* GET /products/category/:category *)

Categories == {"x", "y", "z"}

findByCategoryUnfiltered(s, category) == s

findByCategory(s, category) ==
    {d \in s : "category" \in DOMAIN d /\ d.category = category}

GetProductsByCategory(s, fault, category) ==
    IF fault THEN InternalServerError(s)
    ELSE Reply(s, 200, findByCategory(s, category))

(* GET /products/sorted/:criteria *)

Criterias == {"name", "NAME", "originalprice", "originalPrice", "temporaryprice",
              "price"}

toLowerCase(c) ==
    CASE c = "NAME" -> "name"
      [] c = "originalPrice" -> "originalprice"
      [] OTHER -> c

validCriteria == {"originalprice", "name", "temporaryprice"}

charCode(c) ==
    CASE c = "(" -> 40 [] c = "." -> 46 [] c = "A" -> 65 [] c = "B" -> 66
      [] c = "a" -> 97 [] c = "b" -> 98

\* Binary comparison of strings, as the store orders them.
StringLeq(a, b) ==
    \/ \E i \in 1..Len(a) :
          /\ i <= Len(b)
          /\ \A k \in 1..(i - 1) : a[k] = b[k]
          /\ charCode(a[i]) < charCode(b[i])
    \/ /\ Len(a) <= Len(b)
       /\ \A k \in 1..Len(a) : a[k] = b[k]

\* The sort key of a document under {[field]: 1}: a missing field sorts as
\* null, before numbers, which sort before strings.
SortKey(d, field) ==
    IF field \notin DOMAIN d THEN [rank |-> 0, num |-> 0, str |-> << >>]
    ELSE IF field = "name" THEN [rank |-> 2, num |-> 0, str |-> d[field]]
    ELSE [rank |-> 1, num |-> d[field], str |-> << >>]

KeyLeq(k1, k2) ==
    \/ k1.rank < k2.rank
    \/ k1.rank = k2.rank /\ k1.num < k2.num
    \/ k1.rank = k2.rank /\ k1.num = k2.num /\ StringLeq(k1.str, k2.str)

Ascending(products, field) ==
    \A i, j \in 1..Len(products) :
        i < j => KeyLeq(SortKey(products[i], field), SortKey(products[j], field))

Orders(s) ==
    {o \in [1..Cardinality(s) -> s] :
        \A i, j \in 1..Cardinality(s) : i # j => o[i] # o[j]}

\* Product.find().sort({[field]: 1}): every document, ascending by the key;
\* the order among documents with equal keys is the store's choice.
findSorted(s, field) == {o \in Orders(s) : Ascending(o, field)}

GetProductsSorted(s, fault, criteria, products) ==
    IF toLowerCase(criteria) \notin validCriteria
    THEN Reply(s, 400, "Invalid sorting criteria")
    ELSE IF fault THEN InternalServerError(s)
    ELSE Reply(s, 200, products)

(* GET /products/cart/:ids *)

Comma == -2

\* The path segment that lists the ids, separated by commas.
RECURSIVE Join(_)
Join(ids) ==
    IF Len(ids) <= 1 THEN ids
    ELSE <<Head(ids), Comma>> \o Join(Tail(ids))

splitUnsplit(segment) == <<segment[1]>>

\* String.prototype.split(','): the pieces between the commas. A piece that
\* is not exactly one id (an empty piece included) does not cast.
RECURSIVE split(_)
split(segment) ==
    IF \A i \in 1..Len(segment) : segment[i] # Comma
    THEN <<IF Len(segment) = 1 THEN segment[1] ELSE MalformedId>>
    ELSE LET c == CHOOSE i \in 1..Len(segment) :
                      /\ segment[i] = Comma
                      /\ \A k \in 1..(i - 1) : segment[k] # Comma
             piece == SubSeq(segment, 1, c - 1)
         IN  <<IF Len(piece) = 1 THEN piece[1] ELSE MalformedId>>
                 \o split(SubSeq(segment, c + 1, Len(segment)))

CartLists(ids) == UNION {[1..n -> ids] : n \in 1..MaxCartIds}
CartSegments(ids) == {Join(l) : l \in CartLists(ids)}

\* Product.find({_id: {$in: ids}}): casting fails on any malformed id.
findByIdIn(s, ids) ==
    IF \E i \in 1..Len(ids) : ~isValidObjectId(ids[i])
    THEN [error |-> TRUE, found |-> {}]
    ELSE [error |-> FALSE,
          found |-> {d \in s : \E i \in 1..Len(ids) : d._id = ids[i]}]

GetProductsCart(s, fault, segment) ==
    LET r == findByIdIn(s, split(segment))
    IN  IF fault \/ r.error THEN InternalServerError(s)
        ELSE Reply(s, 200, r.found)

----------------------------------------------------------------------------
(* The service: one action per route, each a whole request. *)

\* Whether the store operation of a request may fail for a reason other than
\* its arguments (an outage). Explored on the route whose contract is about
\* it; every handler has the path.
StoreFaults(op) == IF op = "getById" THEN BOOLEAN ELSE {FALSE}

NoRequest == [op |-> "none"]

Idle == [phase |-> "idle"]

Init ==
    /\ inflight = Idle
    /\ suspended = << >>
    /\ store = {}
    /\ nextId = 1
    /\ requests = 0
    /\ resp = [req |-> NoRequest, status |-> 0, body |-> "", sent |-> 0,
               threw |-> FALSE]
    /\ asCreated = {}
    /\ deleted = [i \in ObjectIds |-> "no"]

Respond(req, out) ==
    /\ requests < MaxRequests
    /\ requests' = requests + 1
    /\ store' = out.store
    /\ resp' = [req |-> req, status |-> out.status, body |-> out.body,
                sent |-> out.sent, threw |-> out.threw]
    /\ UNCHANGED <<inflight, suspended>>

\* Ids a client has seen: those the driver has handed out.
KnownIds == 1..(nextId - 1)

\* Path ids of a request: a known id, a valid id of no product, a malformed one.
PathIds == KnownIds \cup {ForeignId, MalformedId}

CreateProduct ==
    \E authOk \in BOOLEAN, fault \in StoreFaults("create"),
       body \in Payloads \cup BodiesWithId(KnownIds) :
        LET generates == verifyToken(authOk) /\ "_id" \notin DOMAIN body
            out == PostProducts(store, authOk, fault, body, nextId)
        IN  /\ Respond([op |-> "create", authOk |-> authOk, fault |-> fault,
                        body |-> body], out)
            /\ nextId' = IF generates THEN nextId + 1 ELSE nextId
            /\ asCreated' = IF out.status = 201 THEN asCreated \cup {out.body}
                            ELSE asCreated
            /\ deleted' = IF out.status = 201 /\ deleted[out.body._id] = "gone"
                          THEN [deleted EXCEPT ![out.body._id] = "back"]
                          ELSE deleted

UpdateProduct ==
    \E authOk \in BOOLEAN, fault \in StoreFaults("update"), id \in PathIds,
       body \in {PayloadB} \cup BodiesWithId(KnownIds) :
        LET out == PutProductById(store, authOk, fault, id, body)
        IN  /\ Respond([op |-> "update", authOk |-> authOk, fault |-> fault,
                        id |-> id, body |-> body], out)
            /\ asCreated' = IF out.status = 200
                            THEN {d \in asCreated : d._id # id} ELSE asCreated
            /\ UNCHANGED <<nextId, deleted>>

DeleteProduct ==
    \E authOk \in BOOLEAN, fault \in StoreFaults("delete"), id \in PathIds :
        LET out == DeleteProductById(store, authOk, fault, id)
        IN  /\ Respond([op |-> "delete", authOk |-> authOk, fault |-> fault,
                        id |-> id], out)
            /\ asCreated' = IF out.status = 204
                            THEN {d \in asCreated : d._id # id} ELSE asCreated
            /\ deleted' = IF out.status = 204
                          THEN [deleted EXCEPT ![id] = "gone"] ELSE deleted
            /\ UNCHANGED nextId

\* The request arrives and its handler runs up to the answer of findById:
\* it responds, or it has loaded the product and is suspended before save.
SetDiscount ==
    \E authOk \in BOOLEAN, fault \in StoreFaults("discount"), id \in PathIds,
       body \in DiscountBodies :
        LET req == [op |-> "discount", authOk |-> authOk, fault |-> fault,
                    id |-> id, body |-> body]
            begin == DiscountBegin(authOk, id, body)
            r == DiscountFind(store, fault, id)
        IN  /\ IF begin = 401 THEN Respond(req, Unauthorized(store))
               ELSE IF begin = 400 THEN Respond(req, Reply(store, 400, "Invalid data"))
               ELSE IF r.status = 500 THEN Respond(req, InternalServerError(store))
               ELSE IF r.status = 404 THEN Respond(req, ProductNotFound(store))
               ELSE /\ requests < MaxRequests
                    /\ Len(suspended) < MaxInFlight
                    /\ requests' = requests + 1
                    /\ suspended' = Append(suspended, [req |-> req, loaded |-> r.loaded])
                    /\ resp' = [req |-> req, status |-> 0, body |-> "", sent |-> 0,
                                threw |-> FALSE]
                    /\ UNCHANGED <<store, inflight>>
            /\ UNCHANGED <<nextId, asCreated, deleted>>

Without(seq, i) == SubSeq(seq, 1, i - 1) \o SubSeq(seq, i + 1, Len(seq))

\* A suspended handler resumes: it saves the product it loaded and responds.
SetDiscountSave ==
    \E i \in 1..Len(suspended) :
        LET req == suspended[i].req
            out == DiscountSave(store, suspended[i].loaded, req.body)
        IN  /\ store' = out.store
            /\ resp' = [req |-> req, status |-> out.status, body |-> out.body,
                        sent |-> out.sent, threw |-> out.threw]
            /\ suspended' = Without(suspended, i)
            /\ asCreated' = IF out.status = 200
                            THEN {d \in asCreated : d._id # req.id} ELSE asCreated
            /\ UNCHANGED <<nextId, requests, deleted, inflight>>

GetById ==
    \E fault \in StoreFaults("getById"), id \in PathIds :
        /\ Respond([op |-> "getById", fault |-> fault, id |-> id],
                   GetProductById(store, fault, id))
        /\ UNCHANGED <<nextId, asCreated, deleted>>

Search ==
    \E fault \in StoreFaults("search"), query \in SearchQueries :
        /\ Respond([op |-> "search", fault |-> fault, query |-> query],
                   GetProductsSearch(store, fault, query))
        /\ UNCHANGED <<nextId, asCreated, deleted>>

ListByCategory ==
    \E fault \in StoreFaults("category"), category \in Categories :
        /\ Respond([op |-> "category", fault |-> fault, category |-> category],
                   GetProductsByCategory(store, fault, category))
        /\ UNCHANGED <<nextId, asCreated, deleted>>

ListSorted ==
    \E fault \in StoreFaults("sorted"), criteria \in Criterias :
        \E products \in findSorted(store, toLowerCase(criteria)) :
            /\ Respond([op |-> "sorted", fault |-> fault, criteria |-> criteria],
                       GetProductsSorted(store, fault, criteria, products))
            /\ UNCHANGED <<nextId, asCreated, deleted>>

GetCart ==
    \E fault \in StoreFaults("cart"), segment \in CartSegments(PathIds) :
        /\ Respond([op |-> "cart", fault |-> fault, segment |-> segment],
                   GetProductsCart(store, fault, segment))
        /\ UNCHANGED <<nextId, asCreated, deleted>>

Next ==
    \/ CreateProduct
    \/ UpdateProduct
    \/ DeleteProduct
    \/ SetDiscount
    \/ SetDiscountSave
    \/ GetById
    \/ Search
    \/ ListByCategory
    \/ ListSorted
    \/ GetCart

Spec == Init /\ [][Next]_vars

----------------------------------------------------------------------------
(* A discount and a delete request in flight together, and no other       *)
(* request: the steps of the discount handler and the one store call of   *)
(* the delete handler (findByIdAndDelete) in every order.                 *)

Running == inflight.phase = "running"

Populate == inflight = Idle /\ CreateProduct

StartPair ==
    /\ inflight = Idle
    /\ \E dAuth, xAuth \in BOOLEAN, dId, xId \in PathIds, body \in DiscountBodies :
          inflight' = [phase |-> "running",
                       d |-> [id |-> dId, body |-> body, authOk |-> dAuth,
                              pc |-> "begin", loaded |-> {}, status |-> 0,
                              sent |-> 0],
                       x |-> [id |-> xId, authOk |-> xAuth, pc |-> "run",
                              status |-> 0]]
    /\ UNCHANGED <<store, nextId, requests, resp, asCreated, deleted, suspended>>

DiscountBeginStep ==
    /\ Running
    /\ inflight.d.pc = "begin"
    /\ LET status == DiscountBegin(inflight.d.authOk, inflight.d.id, inflight.d.body)
       IN  inflight' = IF status = 0
                       THEN [inflight EXCEPT !.d.pc = "find"]
                       ELSE [inflight EXCEPT !.d.pc = "done", !.d.status = status,
                                             !.d.sent = @ + 1]
    /\ UNCHANGED <<store, nextId, requests, resp, asCreated, deleted, suspended>>

DiscountFindStep ==
    /\ Running
    /\ inflight.d.pc = "find"
    /\ LET r == DiscountFind(store, FALSE, inflight.d.id)
       IN  inflight' = IF r.status = 0
                       THEN [inflight EXCEPT !.d.pc = "save", !.d.loaded = r.loaded]
                       ELSE [inflight EXCEPT !.d.pc = "done", !.d.status = r.status,
                                             !.d.sent = @ + 1]
    /\ UNCHANGED <<store, nextId, requests, resp, asCreated, deleted, suspended>>

DiscountSaveStep ==
    /\ Running
    /\ inflight.d.pc = "save"
    /\ LET out == DiscountSave(store, inflight.d.loaded, inflight.d.body)
       IN  /\ store' = out.store
           /\ inflight' = [inflight EXCEPT !.d.pc = "done", !.d.status = out.status,
                                           !.d.sent = @ + out.sent]
    /\ UNCHANGED <<nextId, requests, resp, asCreated, deleted, suspended>>

DeleteStep ==
    /\ Running
    /\ inflight.x.pc = "run"
    /\ LET out == DeleteProductById(store, inflight.x.authOk, FALSE, inflight.x.id)
       IN  /\ store' = out.store
           /\ inflight' = [inflight EXCEPT !.x.pc = "done", !.x.status = out.status]
    /\ UNCHANGED <<nextId, requests, resp, asCreated, deleted, suspended>>

NextInterleaved ==
    \/ Populate
    \/ StartPair
    \/ DiscountBeginStep
    \/ DiscountFindStep
    \/ DiscountSaveStep
    \/ DeleteStep

SpecInterleaved == Init /\ [][NextInterleaved]_vars

----------------------------------------------------------------------------
(* Properties *)

Mutating == {"create", "update", "delete", "discount"}

\* The fields of a document, its version key aside.
Fields(d) == [f \in DOMAIN d \ {"__v"} |-> d[f]]

\* The document a create of payload P under id stores and returns.
Created(P, id) == Merge(WithId(P, id), VersionKey)

Handled(r, op) == r.req.op = op

\* A mutating request whose auth verification succeeded.
Authorized(r, op) == r.req.op = op /\ r.req.authOk

\* C1: on each of the four mutating routes, whatever the body and the path
\* id, a request whose auth verification fails is answered 401 and leaves
\* every stored product as it was.
C1_AuthFailureChangesNothing ==
    [][(resp'.req.op \in Mutating /\ ~resp'.req.authOk)
          => (resp'.status = 401 /\ resp'.sent = 1 /\ store' = store)]_vars

\* A discount request that would have changed a stored product was refused.
C1_Witness ==
    /\ Handled(resp, "discount")
    /\ ~resp.req.authOk
    /\ resp.status = 401
    /\ resp.req.id \in Ids(store)
    /\ ~Falsy(resp.req.body, "temporaryPrice")
    /\ resp.req.body.temporaryPrice = 7
    /\ Created(PayloadA, resp.req.id) \in store

\* C2 as stated (the version key read as no field of the product): every
\* create returns 201 with the payload's fields plus an id the store
\* assigned, and a get of that id, before any change to it, returns 200 with
\* that document.
C2_Original ==
    [][/\ Authorized(resp', "create")
          => /\ resp'.status = 201
             /\ Fields(resp'.body) = WithId(resp'.req.body, nextId)
       /\ (Handled(resp', "getById") /\ ~resp'.req.fault)
          => \A d \in asCreated :
                d._id = resp'.req.id => resp'.status = 200 /\ resp'.body = d]_vars

\* C2 amended: a create whose payload carries no _id returns 201 with the
\* payload's fields plus a fresh id generated for it and the version key
\* __v = 0, and that document is stored; a get of the id of a created
\* product, before any update, discount or delete of it, returns 200 with
\* the document the create returned, version key included.
C2_CreateThenGet ==
    [][/\ (Authorized(resp', "create") /\ "_id" \notin DOMAIN resp'.req.body)
          => /\ resp'.status = 201
             /\ resp'.body = Created(resp'.req.body, nextId)
             /\ nextId \notin Ids(store)
             /\ \A i \in ObjectIds : deleted[i] # "no" => i # nextId
             /\ store' = store \cup {resp'.body}
       /\ (Handled(resp', "getById") /\ ~resp'.req.fault)
          => \A d \in asCreated :
                d._id = resp'.req.id => resp'.status = 200 /\ resp'.body = d]_vars

\* A get, after other requests, of a product created from a payload without id.
C2_Witness ==
    /\ Handled(resp, "getById")
    /\ resp.status = 200
    /\ resp.body \in asCreated
    /\ resp.body = Created(PayloadB, resp.req.id)
    /\ requests >= 3

\* C3 as stated (an id read as a well-formed one): a delete of an id not in
\* the store returns 404 and changes nothing, a delete of an id in the store
\* returns 204, and every later get of a deleted id returns 404.
C3_Original ==
    [][/\ (Authorized(resp', "delete") /\ isValidObjectId(resp'.req.id))
          => IF resp'.req.id \in Ids(store)
             THEN resp'.status = 204
             ELSE resp'.status = 404 /\ store' = store
       /\ (Handled(resp', "getById") /\ ~resp'.req.fault
              /\ resp'.req.id \in ObjectIds)
          => (deleted[resp'.req.id] # "no" => resp'.status = 404)]_vars

\* C3 amended: a delete of a well-formed id not in the store returns 404, a
\* delete of a malformed id returns 500, and both change nothing; a delete of
\* an id in the store returns 204 and removes that product only; every later
\* get of that id returns 404 until a create whose body carries that id
\* stores it again.
C3_DeleteThenGet ==
    [][/\ Authorized(resp', "delete")
          => IF resp'.req.id \in Ids(store)
             THEN /\ resp'.status = 204
                  /\ store' = {d \in store : d._id # resp'.req.id}
             ELSE /\ resp'.status = IF isValidObjectId(resp'.req.id) THEN 404 ELSE 500
                  /\ store' = store
       /\ (Handled(resp', "getById") /\ ~resp'.req.fault
              /\ resp'.req.id \in ObjectIds)
          => (deleted[resp'.req.id] = "gone" => resp'.status = 404)
       /\ \A i \in ObjectIds :
             (deleted[i] = "gone" /\ deleted'[i] # "gone")
                => /\ Handled(resp', "create")
                   /\ "_id" \in DOMAIN resp'.req.body
                   /\ resp'.req.body._id = i]_vars

\* A get of a deleted id, with another request in between.
C3_Witness ==
    /\ Handled(resp, "getById")
    /\ resp.req.id \in ObjectIds
    /\ deleted[resp.req.id] = "gone"
    /\ resp.status = 404
    /\ requests >= 4

\* The handler that the step resumes, when the step is a save.
Resumed(i) ==
    /\ i \in 1..Len(suspended)
    /\ suspended' = Without(suspended, i)
    /\ suspended[i].req = resp'.req

\* C4 as stated: a discount request on a stored product with temporaryPrice
\* 0 returns 400 and changes nothing; with any other number, once the
\* handler has found the product, it returns 200 with a product whose
\* temporaryPrice is that number, the stored temporaryPrice is that number
\* and no other stored field changes.
C4_Original ==
    [][(Authorized(resp', "discount") /\ "temporaryPrice" \in DOMAIN resp'.req.body)
          => LET v == resp'.req.body.temporaryPrice
             IN  IF requests' # requests
                 THEN (resp'.req.id \in Ids(store) /\ v = 0)
                         => resp'.status = 400 /\ store' = store
                 ELSE /\ resp'.status = 200
                      /\ resp'.body.temporaryPrice = v
                      /\ \E d \in store' :
                            d._id = resp'.req.id /\ d.temporaryPrice = v
                      /\ \A d \in store : d._id # resp'.req.id => d \in store'
                      /\ \A d \in store : \A e \in store' :
                            d._id = e._id
                               => \A f \in DOMAIN d \ {"temporaryPrice"} :
                                     f \in DOMAIN e /\ e[f] = d[f]]_vars

\* C4 amended: a discount request on a stored product with temporaryPrice 0
\* returns 400 and changes nothing; with any other number the handler loads
\* the product, changing nothing, and when it saves a product that is still
\* stored it returns 200 with a product whose temporaryPrice is that number
\* and never changes another stored field; when no request changed the
\* product between the load and the save, the stored temporaryPrice becomes
\* that number and the returned product is the stored one; when the product
\* changed in between, the save of a number equal to the loaded one writes
\* nothing; when the product was deleted in between, the answer is 500 and
\* nothing changes.
C4_Discount ==
    [][(Authorized(resp', "discount") /\ "temporaryPrice" \in DOMAIN resp'.req.body
           /\ resp'.req.id \notin Ids(store) /\ requests' = requests)
          => resp'.status = 500 /\ resp'.sent = 1 /\ store' = store]_vars
    /\
    [][(Authorized(resp', "discount") /\ resp'.req.id \in Ids(store)
           /\ "temporaryPrice" \in DOMAIN resp'.req.body)
          => LET old == CHOOSE d \in store : d._id = resp'.req.id
                 v == resp'.req.body.temporaryPrice
                 set == (store \ {old}) \cup {Merge(old, [temporaryPrice |-> v])}
             IN  IF v = 0
                 THEN resp'.status = 400 /\ store' = store
                 ELSE IF requests' # requests
                 THEN /\ resp'.sent = 0
                      /\ store' = store
                      /\ suspended' = Append(suspended, [req |-> resp'.req,
                                                         loaded |-> {old}])
                 ELSE /\ resp'.status = 200
                      /\ resp'.sent = 1
                      /\ resp'.body._id = resp'.req.id
                      /\ resp'.body.temporaryPrice = v
                      /\ store' \in {store, set}
                      /\ \E i \in 1..Len(suspended) :
                            /\ Resumed(i)
                            /\ resp'.body = Merge(CHOOSE d \in suspended[i].loaded : TRUE,
                                                  [temporaryPrice |-> v])
                            /\ suspended[i].loaded = {old}
                                  => store' = set /\ resp'.body \in store'
                            /\ store' = store
                                  <=> \/ set = store
                                      \/ \E d \in suspended[i].loaded :
                                            /\ "temporaryPrice" \in DOMAIN d
                                            /\ d.temporaryPrice = v]_vars

\* A discount of 7 was stored on a product that keeps its name.
C4_Witness ==
    /\ Authorized(resp, "discount")
    /\ resp.status = 200
    /\ resp.req.body.temporaryPrice = 7
    /\ resp.body \in store
    /\ resp.body.temporaryPrice = 7
    /\ resp.body.name = Name_B

\* The product field a sort criteria names.
FieldNamed(criteria) ==
    CASE toLowerCase(criteria) = "originalprice" -> "originalPrice"
      [] toLowerCase(criteria) = "temporaryprice" -> "temporaryPrice"
      [] OTHER -> "name"

IsListOfAll(products, s) ==
    /\ Len(products) = Cardinality(s)
    /\ {products[i] : i \in 1..Len(products)} = s

\* C5: a sorted listing with a criteria outside originalprice, name,
\* temporaryprice (case-insensitively) returns 400; with a valid criteria it
\* returns 200 with all stored products in ascending order of the product
\* field the criteria names.
C5_SortedAscendingByField ==
    Handled(resp, "sorted")
       => IF toLowerCase(resp.req.criteria) \notin validCriteria
          THEN resp.status = 400
          ELSE /\ resp.status = 200
               /\ IsListOfAll(resp.body, store)
               /\ Ascending(resp.body, FieldNamed(resp.req.criteria))

\* Letters compared without regard to case.
SameLetter(a, b) ==
    \/ a = b
    \/ {a, b} = {"a", "A"}
    \/ {a, b} = {"b", "B"}

ContainsIgnoringCase(text, part) ==
    \E off \in 0..(Len(text) - Len(part)) :
        \A k \in 1..Len(part) : SameLetter(part[k], text[off + k])

NamesContaining(s, part) ==
    {d \in s : "name" \in DOMAIN d /\ ContainsIgnoringCase(d.name, part)}

Metacharacters == {".", "("}

HasMetacharacter(text) == \E i \in 1..Len(text) : text[i] \in Metacharacters

\* C6 as stated (an empty parameter read as a missing one): a search without
\* the name parameter returns 400; with the parameter, whatever its text, it
\* returns 200 with exactly the products whose name contains the text,
\* case-insensitively.
C6_Original ==
    Handled(resp, "search")
       => IF "name" \notin DOMAIN resp.req.query \/ resp.req.query.name = << >>
          THEN resp.status = 400
          ELSE /\ resp.status = 200
               /\ resp.body = NamesContaining(store, resp.req.query.name)

\* C6 amended: a search without the name parameter, or with an empty one,
\* returns 400; with a non-empty text free of regular-expression
\* metacharacters it returns 200 with exactly the products whose name
\* contains the text, case-insensitively; a text with metacharacters is used
\* as a regular expression: an unterminated group returns 500, and "."
\* returns every product that has a non-empty name.
C6_Search ==
    Handled(resp, "search")
       => IF "name" \notin DOMAIN resp.req.query \/ resp.req.query.name = << >>
          THEN resp.status = 400
          ELSE IF ~HasMetacharacter(resp.req.query.name)
          THEN /\ resp.status = 200
               /\ resp.body = NamesContaining(store, resp.req.query.name)
          ELSE IF resp.req.query.name = <<"(">>
          THEN resp.status = 500
          ELSE /\ resp.status = 200
               /\ resp.body = {d \in store : "name" \in DOMAIN d /\ Len(d.name) >= 1}

\* A search for "B" found the product named "ab" and the one named "B".
C6_Witness ==
    /\ Handled(resp, "search")
    /\ resp.status = 200
    /\ resp.req.query = [name |-> <<"B">>]
    /\ \E d, e \in resp.body : d.name = Name_ab /\ e.name = Name_B

\* C7 (an id read as a well-formed one, the version key as no field of the
\* product): an update of a stored product returns 200 and leaves the
\* product with exactly the fields of the body and its id; an update of an
\* id not in the store returns 404 and changes nothing.
C7_Original ==
    [][(Authorized(resp', "update") /\ isValidObjectId(resp'.req.id))
          => IF resp'.req.id \in Ids(store)
             THEN /\ resp'.status = 200
                  /\ Fields(resp'.body) = WithId(resp'.req.body, resp'.req.id)
                  /\ store' = {d \in store : d._id # resp'.req.id} \cup {resp'.body}
             ELSE resp'.status = 404 /\ store' = store]_vars

\* What the update route does instead of C7: an update of a stored product
\* whose body carries no _id, or the path id, returns 200 with the updated
\* product: every field of the body
\* is stored with the body's value, every field the body omits keeps its
\* value, and the id is unchanged; a body that carries another _id returns
\* 500 and changes nothing; an update of a well-formed id not in the store
\* returns 404, of a malformed id 500, and both change nothing.
C7_UpdateMerges ==
    [][Authorized(resp', "update")
          => IF resp'.req.id \in Ids(store)
             THEN LET old == CHOOSE d \in store : d._id = resp'.req.id
                      body == resp'.req.body
                  IN  IF "_id" \in DOMAIN body /\ body._id # resp'.req.id
                      THEN resp'.status = 500 /\ store' = store
                      ELSE /\ resp'.status = 200
                           /\ resp'.body._id = resp'.req.id
                           /\ DOMAIN resp'.body = DOMAIN old \cup DOMAIN body
                           /\ \A f \in DOMAIN body : resp'.body[f] = body[f]
                           /\ \A f \in DOMAIN old \ DOMAIN body :
                                 resp'.body[f] = old[f]
                           /\ store' = (store \ {old}) \cup {resp'.body}
             ELSE /\ resp'.status = IF isValidObjectId(resp'.req.id) THEN 404 ELSE 500
                  /\ store' = store]_vars

\* An update whose body omits temporaryPrice left the stored one in place.
C7_Witness ==
    /\ Authorized(resp, "update")
    /\ resp.status = 200
    /\ resp.req.body = PayloadB
    /\ resp.body \in store
    /\ resp.body.name = Name_B
    /\ "temporaryPrice" \in DOMAIN resp.body

\* C8: a get of a well-formed id that is not in the store returns 404 and a
\* get of a malformed id returns 500; in every case, a store fault included,
\* the handler writes exactly one response and no exception leaves it.
C8_GetByIdAlwaysAnswers ==
    Handled(resp, "getById")
       => /\ resp.sent = 1
          /\ ~resp.threw
          /\ ~isValidObjectId(resp.req.id) => resp.status = 500
          /\ (isValidObjectId(resp.req.id) /\ ~resp.req.fault
                 /\ resp.req.id \notin Ids(store)) => resp.status = 404
          /\ resp.req.fault => resp.status = 500

\* A get of a malformed id while products are stored was answered 500.
C8_Witness ==
    /\ Handled(resp, "getById")
    /\ resp.req.id = MalformedId
    /\ ~resp.req.fault
    /\ resp.status = 500
    /\ resp.sent = 1
    /\ store # {}

\* C9: a listing by category c returns 200 with exactly the stored products
\* whose category is c: a product created with category c and not changed
\* since is in it, and no deleted product is.
C9_ListByCategory ==
    Handled(resp, "category")
       => /\ resp.status = 200
          /\ \A d \in store :
                d \in resp.body
                   <=> ("category" \in DOMAIN d /\ d.category = resp.req.category)
          /\ resp.body \subseteq store
          /\ \A d \in asCreated :
                d.category = resp.req.category => d \in resp.body
          /\ \A d \in resp.body : deleted[d._id] # "gone"

\* The listing for x is empty after the only product of category x, created
\* next to one of category y, was deleted.
C9_Witness ==
    /\ Handled(resp, "category")
    /\ resp.req.category = "x"
    /\ resp.status = 200
    /\ resp.body = {}
    /\ \E i \in ObjectIds : deleted[i] = "gone"
    /\ \E d \in store : d.category = "y"
    /\ requests = 4

\* The ids a cart path segment lists.
Listed(segment) == {segment[i] : i \in 1..Len(segment)} \ {Comma}

\* C10: a cart request that lists well-formed ids returns 200 with exactly
\* the stored products whose id is listed; a listed id of no product is
\* absent from the result without error, and the store is unchanged.
C10_Cart ==
    [][Handled(resp', "cart")
          => /\ store' = store
             /\ (~resp'.req.fault /\ \A i \in Listed(resp'.req.segment) : isValidObjectId(i))
                   => /\ resp'.status = 200
                      /\ resp'.body = {d \in store : d._id \in Listed(resp'.req.segment)}]_vars

\* A cart of a stored id and an id of no product returned the one product.
C10_Witness ==
    /\ Handled(resp, "cart")
    /\ resp.req.segment = <<ForeignId, Comma, 1>>
    /\ resp.status = 200
    /\ Cardinality(resp.body) = 1
    /\ Cardinality(store) = 2

\* C11: after any sequence of create, update, discount and delete requests
\* no two stored products have the same id, and the id of a stored product
\* never changes: an update or a discount leaves the set of stored ids as it
\* was and answers 200 only with the product of the path id, an update whose
\* body carries another id changes nothing, and a create adds only the id it
\* returns.
C11_IdUniqueAndImmutable ==
    /\ [](\A d, e \in store : d._id = e._id => d = e)
    /\ [][/\ resp'.req.op \in {"update", "discount"}
             => /\ Ids(store') = Ids(store)
                /\ \A d \in store : d._id # resp'.req.id => d \in store'
                /\ resp'.status = 200 => resp'.body._id = resp'.req.id
          /\ (Authorized(resp', "update") /\ "_id" \in DOMAIN resp'.req.body
                 /\ resp'.req.body._id # resp'.req.id)
             => store' = store
          /\ Handled(resp', "create")
             => /\ store \subseteq store'
                /\ \A d \in store' \ store : resp'.status = 201 /\ d = resp'.body
          /\ Handled(resp', "delete") => store' \subseteq store]_vars

\* An update of a stored product with the _id of another stored product in
\* its body was refused, and both products are stored under their ids.
C11_Witness ==
    /\ Authorized(resp, "update")
    /\ resp.req.id = 1
    /\ resp.req.body = WithId(PayloadA, 2)
    /\ resp.status = 500
    /\ Ids(store) = {1, 2}
    /\ Created(PayloadB, 1) \in store

BothDone == Running /\ inflight.d.pc = "done" /\ inflight.x.pc = "done"

\* C12: for every interleaving of the steps of a discount request and a
\* delete request on the same id, once both have completed and the delete
\* answered 204 the product is not in the store (the save of the discount
\* does not create it again), and the discount request, when it passed the
\* auth check and the input validation, has written exactly one response,
\* 200, 404 or 500: 404 when its find ran after the delete, 500 when only
\* its save did.
C12_DiscountNeverRevivesDeleted ==
    (BothDone /\ inflight.d.id = inflight.x.id /\ inflight.x.status = 204)
       => /\ inflight.d.id \notin Ids(store)
          /\ inflight.d.sent = 1
          /\ (inflight.d.authOk /\ ~Falsy(inflight.d.body, "temporaryPrice"))
                => /\ inflight.d.status \in {200, 404, 500}
                   /\ inflight.d.status = 404 <=> inflight.d.loaded = {}

\* The delete ran between the find and the save of the discount: the save
\* failed with 500 and the product stays deleted while another is stored.
C12_Witness ==
    /\ BothDone
    /\ inflight.d.id = inflight.x.id
    /\ inflight.x.status = 204
    /\ inflight.d.status = 500
    /\ inflight.d.loaded # {}
    /\ inflight.d.id \notin Ids(store)
    /\ store # {}

====
